---- MODULE Spec2Model ----
(***************************************************************************)
(* Document processing pipeline of docproc_ai: the Document status field,  *)
(* the dispatch endpoints of the API gateway, the Pub/Sub push transport   *)
(* and the OCR, invoice, summarizer and RAG-ingest stage workers.          *)
(*                                                                         *)
(* Database access goes through SQLAlchemy sessions on PostgreSQL (READ    *)
(* COMMITTED): an ORM object is loaded by a query, attribute assignments   *)
(* are buffered, and commit() emits one UPDATE carrying the columns whose  *)
(* value differs from the loaded one.  After a commit the object is        *)
(* expired, so every later assignment is written unconditionally.          *)
(***************************************************************************)
EXTENDS Integers, FiniteSets, Sequences, Bags, TLC

\* ---- bounds of the model ------------------------------------------------
MaxDispatch == 2
MaxRuns == 2
MaxSegs == 6
MaxChunks == 11   \* most chunks the text of the document to index splits into
MaxPages == 3     \* most pages the document to index has
max_requests == 1    \* requests the rate limit allows in one window
window_seconds == 2  \* length of a rate-limit window, in seconds
MaxLimit == 2    \* largest max_chunks a request carries
EfSearch == 2    \* candidates one scan of the HNSW index yields (hnsw.ef_search)
MaxTextLen == 7  \* longest text of the exhaustive set handed to the splitter
chunk_size == 4     \* the splitter's chunk_size, scaled down
chunk_overlap == 1  \* the splitter's chunk_overlap, scaled down

\* ---- program constants --------------------------------------------------
BatchSize == 5

Tenants == {"t1", "t2"}
OneDoc == {1}
TwoDocs == {1, 2}
MissingDoc == 0
Workers == {1, 2}
Stages == {"ocr", "invoice", "summary", "rag"}
\* the files that get uploaded: a one-segment invoice, a long generic document
Files == {[document_type |-> "invoice", segments |-> 1],
          [document_type |-> "generic", segments |-> MaxSegs]}
Null == "null"

VARIABLES
    docs,      \* documents table: document id -> row
    blob,      \* stored file of a document, as the number of segments its text splits into
    ocr_results, invoice_data, document_summaries,  \* stage result tables (sets of rows)
    document_filling_results,                       \* results of form filling (set of rows)
    document_chunks,                                \* chunk table (set of rows)
    audit_logs,                                     \* audit table (set of rows)
    queue,     \* bag of published, not yet acknowledged job messages
    workers,   \* per consumer instance: position in its /process handler and its locals
    api,       \* the dispatch request being served by the gateway
    chat,      \* the retrieval request being served, with its answer
    ndisp,     \* number of messages published so far
    nruns,     \* number of deliveries so far
    chunker,   \* the text splitter of the ingestion pipeline: its input and output
    estimator, \* the page estimate of the ingestion pipeline: its inputs and results
    limiter    \* the rate limiter: the clock, the Redis keys, the callers inside it

vars == <<docs, blob, ocr_results, invoice_data, document_summaries,
          document_filling_results, document_chunks, audit_logs, queue, workers, api, chat, ndisp, nruns,
          chunker, estimator, limiter>>

tables == <<ocr_results, invoice_data, document_summaries, document_chunks, audit_logs>>

\* the ids the store hands out
DocIds == DOMAIN docs

\* ---- rows ---------------------------------------------------------------
NoDocument ==
    [exists |-> FALSE, tenant_id |-> "t1", document_type |-> "generic",
     status |-> "uploaded", error_message |-> Null,
     processing_started_at |-> 0, processing_completed_at |-> 0,
     ocr_completed |-> FALSE, invoice_parsed |-> FALSE,
     summarized |-> FALSE, rag_indexed |-> FALSE]

Document(t, ty) ==
    [NoDocument EXCEPT !.exists = TRUE, !.tenant_id = t, !.document_type = ty]

IdleWorker ==
    [pc |-> "idle", stage |-> "ocr", queued |-> TRUE, tenant_id |-> "t1", document_id |-> 0,
     run |-> 0, loaded |-> "none", i |-> 0, total |-> 0, stored |-> 0,
     began |-> FALSE, raised |-> FALSE, resp |-> "none",
     calls |-> <<>>]   \* the calls made to the embedding client, each a list of texts

IdleApi == [pc |-> "idle", kind |-> "none", document_id |-> 0, tenant_id |-> "t1",
            loaded |-> "none"]

\* document_ids of a request: None, or a list (here a set) of ids
NoFilter == [given |-> FALSE, ids |-> {}]

IdleChat == [pc |-> "idle", op |-> "none", tenant_id |-> "t1", document_ids |-> NoFilter,
             max_chunks |-> 0, query |-> <<0, 0>>, results |-> <<>>, status_code |-> 0]

\* keys of the JSON object every dispatch endpoint of a stage publishes
PublishedKeys(st) ==
    IF st = "filling"
    THEN {"tenant_id", "user_id", "document_id", "gcs_path", "document_type", "options"}
    ELSE {"tenant_id", "user_id", "document_id", "gcs_path"}

\* keys the /process handler of a stage reads by subscript (a missing one
\* raises KeyError); keys read with .get() have a default and are not listed
ReadKeys(st) ==
    IF st = "filling"
    THEN {"tenant_id", "user_id", "id_document_id", "template_name", "output_document_id"}
    ELSE {"tenant_id", "user_id", "document_id", "gcs_path"}

\* the publisher stamps every job with one fixed tenant
Message_DefaultTenant(st, t, d) ==
    [stage |-> st, keys |-> PublishedKeys(st),
     tenant_id |-> "t1", user_id |-> t, document_id |-> d]

\* a published job: the topic it is on (stage) and its JSON object
Message(st, t, d) ==
    [stage |-> st, keys |-> PublishedKeys(st),
     tenant_id |-> t, user_id |-> t, document_id |-> d]

\* the row the flag of a stage lives in
FlagOf(st) ==
    CASE st = "ocr" -> "ocr_completed"
      [] st = "invoice" -> "invoice_parsed"
      [] st = "summary" -> "summarized"
      [] OTHER -> "rag_indexed"

AuditAction(st) ==
    CASE st = "ocr" -> "ocr_completed"
      [] st = "invoice" -> "invoice_processed"
      [] st = "summary" -> "summary_generated"
      [] OTHER -> "rag_indexed"

Found(d) == d \in DocIds /\ docs[d].exists

\* the document query with the tenant filter removed
filter_query_NoTenant(d, t) == Found(d)

\* the document query of every dispatch endpoint: by id, filtered by the
\* caller's tenant; .first() yields a row or None
filter_query(d, t) == Found(d) /\ docs[d].tenant_id = t

\* datetime.utcnow(): time does not run backwards; it is observed to advance
\* with every delivery
now == 1 + nruns

IdleChunker == [pc |-> "idle", text |-> <<>>, chunks |-> <<>>]

IdleEstimator == [total_chunks |-> 0, total_pages |-> 0, pages |-> <<>>]

\* ---- rate limiter: clock, keys and callers --------------------------------
Callers == {1, 2}
Keys == {"ip:a", "user:u"}
MaxClock == 2 * window_seconds   \* the clock is watched over two windows
MaxCalls == max_requests + 2     \* calls of check_rate_limit that are watched
Windows == 0 .. (MaxClock \div window_seconds)
NoExpiry == -1

\* window_key = f"rate_limit:{key}:{current // window_seconds}"
WindowKeys == Keys \X Windows

NoKey == [count |-> 0, expires_at |-> NoExpiry]

IdleCaller == [pc |-> "idle", key |-> "ip:a", window |-> 0]

IdleLimiter ==
    [clock |-> 0,
     redis |-> [k \in WindowKeys |-> NoKey],
     callers |-> [c \in Callers |-> IdleCaller],
     granted |-> [k \in WindowKeys |-> 0],   \* calls that returned True, by window key
     ncalls |-> 0,
     errors |-> FALSE]                       \* a Redis command has raised

\* ---- initial state ------------------------------------------------------
Init ==
    /\ docs = [d \in OneDoc |-> NoDocument]
    /\ blob = [d \in OneDoc |-> 0]
    /\ ocr_results = {}
    /\ invoice_data = {}
    /\ document_summaries = {}
    /\ document_filling_results = {}
    /\ document_chunks = {}
    /\ audit_logs = {}
    /\ queue = EmptyBag
    /\ workers = [w \in Workers |-> IdleWorker]
    /\ api = IdleApi
    /\ chat = IdleChat
    /\ ndisp = 0
    /\ nruns = 0
    /\ chunker = IdleChunker
    /\ estimator = IdleEstimator
    /\ limiter = IdleLimiter

\* ---- upload -------------------------------------------------------------
upload_document(d, t, f) ==
    /\ api.pc = "idle"
    /\ ~docs[d].exists
    /\ \A e \in DocIds : e < d => docs[e].exists   \* ids are handed out in order
    /\ ndisp = 0 /\ nruns = 0   \* an upload commutes with every step on other documents
    /\ d = 1 => t = "t1"                            \* tenants are interchangeable
    /\ docs' = [docs EXCEPT ![d] = Document(t, f.document_type)]
    /\ blob' = [blob EXCEPT ![d] = f.segments]
    /\ UNCHANGED <<limiter, estimator, chunker, document_filling_results, chat, tables, queue, workers, api, ndisp, nruns>>

\* ---- SQLAlchemy unit of work --------------------------------------------
\* value of a column after flushing an assignment: an assignment that equals
\* the loaded value is no net change and is left out of the UPDATE, so the
\* stored value stays whatever it is; an expired object ("expired") has no
\* loaded value and the assignment is always written
Flushed(stored, loaded, assigned) ==
    IF loaded = assigned THEN stored ELSE assigned

\* ---- transport: publishing ----------------------------------------------
Publish(st, t, d) ==
    /\ ndisp < MaxDispatch
    /\ ndisp' = ndisp + 1
    /\ queue' = queue (+) SetToBag({Message(st, t, d)})

\* ---- dispatch endpoints that publish first and write status afterwards --
process_invoice_publish(d, t) ==
    /\ api.pc = "idle"
    /\ filter_query(d, t)
    /\ docs[d].document_type = "invoice"
    /\ Publish("invoice", t, d)
    /\ api' = [pc |-> "inv1_commit", kind |-> "invoice", document_id |-> d,
               tenant_id |-> t, loaded |-> docs[d].status]
    /\ UNCHANGED <<limiter, estimator, chunker, document_filling_results, chat, docs, blob, tables, workers, nruns>>

process_invoice_commit ==
    /\ api.pc = "inv1_commit"
    /\ docs' = [docs EXCEPT ![api.document_id] =
                  [@ EXCEPT !.status = Flushed(@, api.loaded, "processing"),
                            !.processing_started_at = now]]
    /\ api' = IdleApi
    /\ UNCHANGED <<limiter, estimator, chunker, document_filling_results, chat, blob, tables, queue, workers, ndisp, nruns>>

generate_summary_publish(d, t) ==
    /\ api.pc = "idle"
    /\ filter_query(d, t)
    /\ \/ \E r \in ocr_results : r.document_id = d
       \/ docs[d].ocr_completed
    /\ Publish("summary", t, d)
    /\ api' = [pc |-> "sum1_commit", kind |-> "summary", document_id |-> d,
               tenant_id |-> t, loaded |-> docs[d].status]
    /\ UNCHANGED <<limiter, estimator, chunker, document_filling_results, chat, docs, blob, tables, workers, nruns>>

generate_summary_commit ==
    /\ api.pc = "sum1_commit"
    /\ docs' = [docs EXCEPT ![api.document_id] =
                  [@ EXCEPT !.status = Flushed(@, api.loaded, "processing"),
                            !.processing_started_at = now]]
    /\ api' = IdleApi
    /\ UNCHANGED <<limiter, estimator, chunker, document_filling_results, chat, blob, tables, queue, workers, ndisp, nruns>>

\* ---- dispatch endpoints that only publish -------------------------------
extract_text_publish(d, t) ==
    /\ api.pc = "idle"
    /\ filter_query(d, t)
    /\ Publish("ocr", t, d)
    /\ UNCHANGED <<limiter, estimator, chunker, document_filling_results, chat, docs, blob, tables, workers, api, nruns>>

index_document_for_chat(d, t) ==
    /\ api.pc = "idle"
    /\ filter_query(d, t)
    /\ Publish("rag", t, d)
    /\ UNCHANGED <<limiter, estimator, chunker, document_filling_results, chat, docs, blob, tables, workers, api, nruns>>

generate_summary_job(d, t) ==
    /\ api.pc = "idle"
    /\ filter_query(d, t)
    /\ Publish("summary", t, d)
    /\ UNCHANGED <<limiter, estimator, chunker, document_filling_results, chat, docs, blob, tables, workers, api, nruns>>

\* ---- dispatch endpoints that write status first and publish afterwards --
ApiLoad(kind, d, t) ==
    /\ api.pc = "idle"
    /\ ndisp < MaxDispatch
    /\ filter_query(d, t)
    /\ api' = [pc |-> "commit", kind |-> kind, document_id |-> d,
               tenant_id |-> t, loaded |-> docs[d].status]
    /\ UNCHANGED <<limiter, estimator, chunker, document_filling_results, chat, docs, blob, tables, queue, workers, ndisp, nruns>>

process_invoice_job_load(d, t) == ApiLoad("invoice", d, t)

process_invoice_job_commit ==
    /\ api.pc = "commit" /\ api.kind = "invoice"
    /\ docs' = [docs EXCEPT ![api.document_id] =
                  [@ EXCEPT !.status = Flushed(@, api.loaded, "processing"),
                            !.processing_started_at = now,
                            !.document_type = "invoice"]]
    /\ api' = [api EXCEPT !.pc = "publish", !.loaded = "expired"]
    /\ UNCHANGED <<limiter, estimator, chunker, document_filling_results, chat, blob, tables, queue, workers, ndisp, nruns>>

process_invoice_job_publish ==
    /\ api.pc = "publish" /\ api.kind = "invoice"
    /\ Publish("invoice", api.tenant_id, api.document_id)
    /\ api' = IdleApi
    /\ UNCHANGED <<limiter, estimator, chunker, document_filling_results, chat, docs, blob, tables, workers, nruns>>

process_invoice_job_publish_fails ==
    /\ api.pc = "publish" /\ api.kind = "invoice"
    /\ docs' = [docs EXCEPT ![api.document_id] =
                  [@ EXCEPT !.status = "failed",
                            !.error_message = "Failed to publish job"]]
    /\ api' = IdleApi
    /\ UNCHANGED <<limiter, estimator, chunker, document_filling_results, chat, blob, tables, queue, workers, ndisp, nruns>>

extract_text_job_load(d, t) == ApiLoad("ocr", d, t)

extract_text_job_commit ==
    /\ api.pc = "commit" /\ api.kind = "ocr"
    /\ docs' = [docs EXCEPT ![api.document_id] =
                  [@ EXCEPT !.status = Flushed(@, api.loaded, "processing"),
                            !.processing_started_at = now]]
    /\ api' = [api EXCEPT !.pc = "publish", !.loaded = "expired"]
    /\ UNCHANGED <<limiter, estimator, chunker, document_filling_results, chat, blob, tables, queue, workers, ndisp, nruns>>

extract_text_job_publish ==
    /\ api.pc = "publish" /\ api.kind = "ocr"
    /\ Publish("ocr", api.tenant_id, api.document_id)
    /\ api' = IdleApi
    /\ UNCHANGED <<limiter, estimator, chunker, document_filling_results, chat, docs, blob, tables, workers, nruns>>

\* publish raises: the exception leaves the endpoint, nothing is written
extract_text_job_publish_fails ==
    /\ api.pc = "publish" /\ api.kind = "ocr"
    /\ api' = IdleApi
    /\ UNCHANGED <<limiter, estimator, chunker, document_filling_results, chat, docs, blob, tables, queue, workers, ndisp, nruns>>

\* ---- dispatch requests that are turned away ------------------------------
\* the query yields None: HTTPException(404) leaves the endpoint before
\* anything is published or written
raise_not_found(kind, d, t) ==
    /\ api.pc = "idle"
    /\ ~filter_query(d, t)
    /\ api' = [pc |-> "not_found", kind |-> kind, document_id |-> d,
               tenant_id |-> t, loaded |-> "none"]
    /\ UNCHANGED <<limiter, estimator, chunker, document_filling_results, chat, docs, blob, tables, queue, workers, ndisp, nruns>>

\* the 404 answer is sent, the gateway serves the next request
respond_not_found ==
    /\ api.pc = "not_found"
    /\ api' = IdleApi
    /\ UNCHANGED <<limiter, estimator, chunker, document_filling_results, chat, docs, blob, tables, queue, workers, ndisp, nruns>>

\* ---- transport: delivery to a consumer instance -------------------------
\* consumer instances are interchangeable: the lowest idle one takes the message
Deliver(w) ==
    /\ workers[w].pc = "idle"
    /\ \A v \in Workers : v < w => workers[v].pc # "idle"
    /\ nruns < MaxRuns
    /\ nruns' = nruns + 1

Started(w, m) ==
    [IdleWorker EXCEPT !.stage = m.stage, !.tenant_id = m.tenant_id,
                       !.document_id = m.document_id, !.run = nruns + 1]

\* an envelope posted to /process whose data cannot be parsed (it is not one
\* of the published messages): the outer handler answers 500
receive_unparsable(w, st) ==
    /\ Deliver(w)
    /\ workers' = [workers EXCEPT ![w] =
                     [IdleWorker EXCEPT !.pc = "done", !.stage = st, !.run = nruns + 1,
                                        !.queued = FALSE, !.raised = TRUE, !.resp = "error"]]
    /\ UNCHANGED <<limiter, estimator, chunker, document_filling_results, chat, docs, blob, tables, queue, api, ndisp>>

\* the handler swallows the missing document and answers 200
receive_not_found_Acked(w, st) ==
    /\ Deliver(w)
    /\ ~Found(MissingDoc)
    /\ workers' = [workers EXCEPT ![w] =
                     [Started(w, Message(st, "t1", MissingDoc)) EXCEPT
                         !.pc = "done", !.queued = FALSE, !.raised = TRUE, !.resp = "success"]]
    /\ UNCHANGED <<limiter, estimator, chunker, document_filling_results, chat, docs, blob, tables, queue, api, ndisp>>

\* a message naming a document that has no row: ValueError, the inner handler
\* dereferences the missing document and raises again, the outer handler
\* answers 500
receive_not_found(w, st) ==
    /\ Deliver(w)
    /\ ~Found(MissingDoc)
    /\ workers' = [workers EXCEPT ![w] =
                     [Started(w, Message(st, "t1", MissingDoc)) EXCEPT
                         !.pc = "done", !.queued = FALSE, !.raised = TRUE, !.resp = "error"]]
    /\ UNCHANGED <<limiter, estimator, chunker, document_filling_results, chat, docs, blob, tables, queue, api, ndisp>>

receive_found(w, m) ==
    /\ Deliver(w)
    /\ BagIn(m, queue)
    /\ ReadKeys(m.stage) \subseteq m.keys
    /\ Found(m.document_id)
    /\ workers' = [workers EXCEPT ![w] =
                     [Started(w, m) EXCEPT !.pc = "loaded",
                                           !.loaded = docs[m.document_id].status]]
    /\ UNCHANGED <<limiter, estimator, chunker, document_filling_results, chat, docs, blob, tables, queue, api, ndisp>>

\* document.status = "processing"; processing_started_at = utcnow(); commit
commit_processing(w) ==
    /\ workers[w].pc = "loaded"
    /\ docs' = [docs EXCEPT ![workers[w].document_id] =
                  [@ EXCEPT !.status = Flushed(@, workers[w].loaded, "processing"),
                            !.processing_started_at = now]]
    /\ workers' = [workers EXCEPT ![w] =
                     [@ EXCEPT !.pc = "work", !.loaded = "expired", !.began = TRUE]]
    /\ UNCHANGED <<limiter, estimator, chunker, document_filling_results, chat, blob, tables, queue, api, ndisp, nruns>>

\* ---- worker: the except branch ------------------------------------------
\* str(e) of the exception a stage's collaborator raises
Min(a, b) == IF a < b THEN a ELSE b

\* chunks = self._split_text(text): the segments of the document's text, in
\* order; a segment is named by its document and its position in the text
split_text(d) == [k \in 1 .. blob[d] |-> <<d, k - 1>>]

\* batch_chunks = chunks[i:i + batch_size] of the loop iteration the worker is in
batch_chunks(w) ==
    LET chunks == split_text(workers[w].document_id)
        i == workers[w].i
    IN SubSeq(chunks, i + 1, Min(i + BatchSize, Len(chunks)))

\* the embedding calls made when a run fails: inside the batch loop the call
\* of the current batch has been issued before anything else can raise
Issued(w) ==
    IF workers[w].stage = "rag" /\ workers[w].pc = "embed" /\ workers[w].i < workers[w].total
    THEN Append(workers[w].calls, batch_chunks(w))
    ELSE workers[w].calls

Raised(st) ==
    CASE st = "ocr" -> "ocr error"
      [] st = "invoice" -> "invoice error"
      [] st = "summary" -> "summary error"
      [] OTHER -> "ingestion error"

\* the handler records the error but leaves the status alone
FailedRow_StatusKept(row, cause) ==
    [row EXCEPT !.error_message = cause,
                !.processing_completed_at = now]

\* the handler marks the row failed without recording the cause
FailedRow_NoCause(row, cause) ==
    [row EXCEPT !.status = "failed",
                !.processing_completed_at = now]

\* the handler resets the stage flags of the row it marks failed
FailedRow_ClearsFlags(row, cause) ==
    [row EXCEPT !.status = "failed",
                !.error_message = cause,
                !.processing_completed_at = now,
                !.ocr_completed = FALSE, !.invoice_parsed = FALSE,
                !.summarized = FALSE, !.rag_indexed = FALSE]

FailedRow(row, cause) ==
    [row EXCEPT !.status = "failed",
                !.error_message = cause,
                !.processing_completed_at = now]

\* the handler swallows the exception and answers 200
StageFail_Acked(w, cause) ==
    /\ workers[w].pc \in {"work", "embed"}
    /\ docs' = [docs EXCEPT ![workers[w].document_id] = FailedRow(@, cause)]
    /\ workers' = [workers EXCEPT ![w] =
                     [@ EXCEPT !.pc = "done", !.raised = TRUE, !.resp = "success",
                               !.calls = Issued(w)]]
    /\ UNCHANGED <<limiter, estimator, chunker, document_filling_results, chat, blob, tables, queue, api, ndisp, nruns>>

\* the exception is raised after the result was added and the flag assigned:
\* the commit of the except branch flushes both with status = failed
StageFail_FlushesPending(w, cause) ==
    /\ workers[w].pc \in {"work", "embed"}
    /\ docs' = [docs EXCEPT ![workers[w].document_id] =
                  [FailedRow(@, cause) EXCEPT ![FlagOf(workers[w].stage)] = TRUE]]
    /\ LET row == [document_id |-> workers[w].document_id,
                   tenant_id |-> workers[w].tenant_id, run |-> workers[w].run]
       IN /\ ocr_results' = IF workers[w].stage = "ocr"
                            THEN ocr_results \cup {row} ELSE ocr_results
          /\ invoice_data' = IF workers[w].stage = "invoice"
                             THEN invoice_data \cup {row} ELSE invoice_data
          /\ document_summaries' = IF workers[w].stage = "summary"
                                   THEN document_summaries \cup {row}
                                   ELSE document_summaries
    /\ workers' = [workers EXCEPT ![w] =
                     [@ EXCEPT !.pc = "done", !.raised = TRUE, !.resp = "error",
                               !.calls = Issued(w)]]
    /\ UNCHANGED <<limiter, estimator, chunker, document_filling_results, chat, blob, document_chunks, audit_logs,
                   queue, api, ndisp, nruns>>

StageFail(w, cause) ==
    /\ workers[w].pc \in {"work", "embed"}
    /\ docs' = [docs EXCEPT ![workers[w].document_id] = FailedRow(@, cause)]
    /\ workers' = [workers EXCEPT ![w] =
                     [@ EXCEPT !.pc = "done", !.raised = TRUE, !.resp = "error",
                               !.calls = Issued(w)]]
    /\ UNCHANGED <<limiter, estimator, chunker, document_filling_results, chat, blob, tables, queue, api, ndisp, nruns>>

process_ocr_fail(w) == workers[w].stage = "ocr" /\ StageFail(w, Raised("ocr"))

process_invoice_fail(w) == workers[w].stage = "invoice" /\ StageFail(w, Raised("invoice"))

process_summarization_fail(w) == workers[w].stage = "summary" /\ StageFail(w, Raised("summary"))

process_rag_ingestion_fail(w) == workers[w].stage = "rag" /\ StageFail(w, Raised("rag"))

\* ---- worker: the success branch -----------------------------------------
\* the success branch writes the flag columns as a whole: the stage's own flag
\* set, the others at their default
CompletedRow_WritesAllFlags(row, st) ==
    [[row EXCEPT !.status = "completed",
                 !.processing_completed_at = now,
                 !.ocr_completed = FALSE, !.invoice_parsed = FALSE,
                 !.summarized = FALSE, !.rag_indexed = FALSE]
        EXCEPT ![FlagOf(st)] = TRUE]

CompletedRow(row, st) ==
    [[row EXCEPT !.status = "completed",
                 !.processing_completed_at = now]
        EXCEPT ![FlagOf(st)] = TRUE]

ResultRow(w) ==
    [document_id |-> workers[w].document_id, tenant_id |-> workers[w].tenant_id,
     run |-> workers[w].run]

AuditRow(w) ==
    [tenant_id |-> workers[w].tenant_id, user_id |-> workers[w].tenant_id,
     document_id |-> workers[w].document_id, action |-> AuditAction(workers[w].stage),
     run |-> workers[w].run]

\* the success branch commits the result and the status without an audit event
StageComplete_NoAudit(w) ==
    /\ docs' = [docs EXCEPT ![workers[w].document_id] = CompletedRow(@, workers[w].stage)]
    /\ audit_logs' = audit_logs
    /\ workers' = [workers EXCEPT ![w] = [@ EXCEPT !.pc = "done", !.resp = "success"]]
    /\ UNCHANGED <<limiter, estimator, chunker, document_filling_results, chat, blob, queue, api, ndisp, nruns>>

\* the success branch keeps one audit event per document and overwrites it
StageComplete_AuditUpsert(w) ==
    /\ docs' = [docs EXCEPT ![workers[w].document_id] = CompletedRow(@, workers[w].stage)]
    /\ audit_logs' = {a \in audit_logs : a.document_id # workers[w].document_id}
                          \cup {AuditRow(w)}
    /\ workers' = [workers EXCEPT ![w] = [@ EXCEPT !.pc = "done", !.resp = "success"]]
    /\ UNCHANGED <<limiter, estimator, chunker, document_filling_results, chat, blob, queue, api, ndisp, nruns>>

StageComplete(w) ==
    /\ docs' = [docs EXCEPT ![workers[w].document_id] = CompletedRow(@, workers[w].stage)]
    /\ audit_logs' = audit_logs \cup {AuditRow(w)}
    /\ workers' = [workers EXCEPT ![w] = [@ EXCEPT !.pc = "done", !.resp = "success"]]
    /\ UNCHANGED <<limiter, estimator, chunker, document_filling_results, chat, blob, queue, api, ndisp, nruns>>

process_ocr_complete(w) ==
    /\ workers[w].pc = "work" /\ workers[w].stage = "ocr"
    /\ ocr_results' = ocr_results \cup {ResultRow(w)}
    /\ StageComplete(w)
    /\ UNCHANGED <<invoice_data, document_summaries, document_chunks>>

process_invoice_complete(w) ==
    /\ workers[w].pc = "work" /\ workers[w].stage = "invoice"
    /\ invoice_data' = invoice_data \cup {ResultRow(w)}
    /\ StageComplete(w)
    /\ UNCHANGED <<ocr_results, document_summaries, document_chunks>>

process_summarization_complete(w) ==
    /\ workers[w].pc = "work" /\ workers[w].stage = "summary"
    /\ document_summaries' = document_summaries \cup {ResultRow(w)}
    /\ StageComplete(w)
    /\ UNCHANGED <<ocr_results, invoice_data, document_chunks>>

\* ---- RAG ingestion pipeline ---------------------------------------------
\* text extraction and splitting: total_chunks = len(chunks)
ingest_document(w) ==
    /\ workers[w].pc = "work" /\ workers[w].stage = "rag"
    /\ workers' = [workers EXCEPT ![w] =
                     [@ EXCEPT !.pc = "embed", !.i = 0, !.stored = 0,
                               !.total = blob[workers[w].document_id]]]
    /\ UNCHANGED <<limiter, estimator, chunker, document_filling_results, chat, docs, blob, tables, queue, api, ndisp, nruns>>

\* the embedding model returns one vector per text, in the order of the texts
get_embeddings_batch(texts) == [j \in 1 .. Len(texts) |-> <<"embedding", texts[j]>>]

ChunkRow(w, k, chunk_text, embedding) ==
    [document_id |-> workers[w].document_id, tenant_id |-> workers[w].tenant_id,
     chunk_index |-> k, content |-> chunk_text, embedding |-> embedding,
     run |-> workers[w].run]

\* the batch takes its texts from the start of the chunk list
BatchRows_BatchRelative(w, n) ==
    LET chunks == split_text(workers[w].document_id)
        i == workers[w].i
        embeddings == get_embeddings_batch(chunks)
    IN {ChunkRow(w, i + j - 1, chunks[j], embeddings[j]) : j \in 1 .. n}

\* the first n rows of the batch that starts at i: batch_chunks = chunks[i:i+5],
\* row j pairs batch_chunks[j] with embeddings[j] under chunk_index i + j
BatchRows(w, n) ==
    LET i == workers[w].i
        embeddings == get_embeddings_batch(batch_chunks(w))
    IN {ChunkRow(w, i + j - 1, batch_chunks(w)[j], embeddings[j]) : j \in 1 .. n}

\* the rows of the batch are dropped instead of committed
embed_and_store_batch_NoCommit(w) ==
    /\ workers[w].pc = "embed"
    /\ workers[w].i < workers[w].total
    /\ LET hi == Min(workers[w].i + BatchSize, workers[w].total)
       IN workers' = [workers EXCEPT ![w] =
                 [@ EXCEPT !.i = @ + BatchSize,
                           !.stored = @ + (hi - workers[w].i),
                           !.calls = Append(@, batch_chunks(w))]]
    /\ UNCHANGED <<limiter, estimator, chunker, document_filling_results, chat, docs, blob, tables, queue, api, ndisp, nruns>>

\* the loop embeds and stores one chunk per iteration
embed_and_store_batch_PerChunk(w) ==
    /\ workers[w].pc = "embed"
    /\ workers[w].i < workers[w].total
    /\ document_chunks' = document_chunks \cup BatchRows(w, 1)
    /\ workers' = [workers EXCEPT ![w] =
                     [@ EXCEPT !.i = @ + 1, !.stored = @ + 1,
                               !.calls = Append(@, SubSeq(batch_chunks(w), 1, 1))]]
    /\ UNCHANGED <<limiter, estimator, chunker, document_filling_results, chat, docs, blob, ocr_results, invoice_data, document_summaries,
                   audit_logs, queue, api, ndisp, nruns>>

\* one iteration of the batch loop: embed chunks[i:i+5], add a row per chunk, commit
embed_and_store_batch(w) ==
    /\ workers[w].pc = "embed"
    /\ workers[w].i < workers[w].total
    /\ LET hi == Min(workers[w].i + BatchSize, workers[w].total)
       IN /\ document_chunks' = document_chunks \cup BatchRows(w, hi - workers[w].i)
          /\ workers' = [workers EXCEPT ![w] =
                 [@ EXCEPT !.i = @ + BatchSize,
                           !.stored = @ + (hi - workers[w].i),
                           !.calls = Append(@, batch_chunks(w))]]
    /\ UNCHANGED <<limiter, estimator, chunker, document_filling_results, chat, docs, blob, ocr_results, invoice_data, document_summaries,
                   audit_logs, queue, api, ndisp, nruns>>

\* the embedding call of the batch raises (j = 0), or the tokenizer rejects the
\* text of chunk i + j: the j rows already added in this batch are still
\* pending and are flushed by the commit of the except branch
embed_and_store_batch_raises(w, j) ==
    /\ workers[w].pc = "embed" /\ workers[w].stage = "rag"
    /\ workers[w].i + j < Min(workers[w].i + BatchSize, workers[w].total)
    /\ document_chunks' = document_chunks \cup BatchRows(w, j)
    /\ docs' = [docs EXCEPT ![workers[w].document_id] = FailedRow(@, Raised("rag"))]
    /\ workers' = [workers EXCEPT ![w] =
                     [@ EXCEPT !.pc = "done", !.raised = TRUE, !.resp = "error",
                               !.stored = @ + j,
                               !.calls = Append(@, batch_chunks(w))]]
    /\ UNCHANGED <<limiter, estimator, chunker, document_filling_results, chat, blob, ocr_results, invoice_data, document_summaries,
                   audit_logs, queue, api, ndisp, nruns>>

\* the worker reports success as soon as one batch is stored
process_rag_ingestion_complete_Early(w) ==
    /\ workers[w].pc = "embed" /\ workers[w].stage = "rag"
    /\ workers[w].i > 0
    /\ StageComplete(w)
    /\ UNCHANGED <<ocr_results, invoice_data, document_summaries, document_chunks>>

process_rag_ingestion_complete(w) ==
    /\ workers[w].pc = "embed" /\ workers[w].stage = "rag"
    /\ workers[w].i >= workers[w].total
    /\ StageComplete(w)
    /\ UNCHANGED <<ocr_results, invoice_data, document_summaries, document_chunks>>

MessageOf(w) ==
    Message(workers[w].stage, workers[w].tenant_id, workers[w].document_id)

\* ---- transport: acknowledgement -----------------------------------------
\* a 2xx answer acknowledges the message, any other answer leaves it queued
acknowledge(w) ==
    /\ workers[w].pc = "done"
    /\ queue' = IF workers[w].resp = "success"
                THEN queue (-) SetToBag({MessageOf(w)})
                ELSE queue
    /\ workers' = [workers EXCEPT ![w] = IdleWorker]
    /\ UNCHANGED <<limiter, estimator, chunker, document_filling_results, chat, docs, blob, tables, api, ndisp, nruns>>

\* ---- specification ------------------------------------------------------
Gateway ==
    \/ \E d \in DocIds, t \in Tenants, f \in Files : upload_document(d, t, f)
    \/ \E d \in DocIds, t \in Tenants :
          \/ process_invoice_publish(d, t)
          \/ generate_summary_publish(d, t)
          \/ extract_text_publish(d, t)
          \/ index_document_for_chat(d, t)
          \/ generate_summary_job(d, t)
          \/ process_invoice_job_load(d, t)
          \/ extract_text_job_load(d, t)
    \/ process_invoice_commit
    \/ generate_summary_commit
    \/ process_invoice_job_commit
    \/ process_invoice_job_publish
    \/ process_invoice_job_publish_fails
    \/ extract_text_job_commit
    \/ extract_text_job_publish
    \/ extract_text_job_publish_fails

Transport ==
    \/ \E w \in Workers, st \in Stages : receive_unparsable(w, st)
    \/ \E w \in Workers, st \in Stages : receive_not_found(w, st)
    \/ \E w \in Workers, m \in BagToSet(queue) : receive_found(w, m)
    \/ \E w \in Workers : acknowledge(w)

StageWorkers ==
    \E w \in Workers :
        \/ commit_processing(w)
        \/ process_ocr_complete(w)
        \/ process_ocr_fail(w)
        \/ process_invoice_complete(w)
        \/ process_invoice_fail(w)
        \/ process_summarization_complete(w)
        \/ process_summarization_fail(w)
        \/ ingest_document(w)
        \/ embed_and_store_batch(w)
        \/ \E j \in 1 .. (BatchSize - 1) : embed_and_store_batch_raises(w, j)
        \/ process_rag_ingestion_complete(w)
        \/ process_rag_ingestion_fail(w)

Next == Gateway \/ Transport \/ StageWorkers

Spec == Init /\ [][Next]_vars

\* ---- two documents, jobs of every stage ----------------------------------
InitTwoDocs ==
    /\ docs = [d \in TwoDocs |-> NoDocument]
    /\ blob = [d \in TwoDocs |-> 0]
    /\ ocr_results = {}
    /\ invoice_data = {}
    /\ document_summaries = {}
    /\ document_filling_results = {}
    /\ document_chunks = {}
    /\ audit_logs = {}
    /\ queue = EmptyBag
    /\ workers = [w \in Workers |-> IdleWorker]
    /\ api = IdleApi
    /\ chat = IdleChat
    /\ ndisp = 0
    /\ nruns = 0
    /\ chunker = IdleChunker
    /\ estimator = IdleEstimator
    /\ limiter = IdleLimiter

\* each tenant uploads one document: an invoice, then a long generic document
GatewayTwoDocs ==
    \/ \E f \in Files : f.document_type = "invoice" /\ upload_document(1, "t1", f)
    \/ \E f \in Files : f.document_type = "generic" /\ upload_document(2, "t2", f)
    \/ \E d \in DocIds, t \in Tenants :
          \/ process_invoice_publish(d, t)
          \/ extract_text_publish(d, t)
          \/ index_document_for_chat(d, t)
          \/ generate_summary_job(d, t)
    \/ process_invoice_commit

TransportTwoDocs ==
    \/ \E w \in Workers, m \in BagToSet(queue) : receive_found(w, m)
    \/ \E w \in Workers : acknowledge(w)

NextTwoDocs == GatewayTwoDocs \/ TransportTwoDocs \/ StageWorkers

SpecTwoDocs == InitTwoDocs /\ [][NextTwoDocs]_vars

\* ---- two tenants, requests for missing and foreign documents -------------
GatewayDispatch ==
    \/ GatewayTwoDocs
    \/ \E d \in DocIds, t \in Tenants :
          \/ process_invoice_job_load(d, t)
          \/ extract_text_job_load(d, t)
    \/ process_invoice_job_commit
    \/ process_invoice_job_publish
    \/ process_invoice_job_publish_fails
    \/ extract_text_job_commit
    \/ extract_text_job_publish
    \/ extract_text_job_publish_fails
    \/ \E kind \in Stages, d \in DocIds \cup {MissingDoc}, t \in Tenants :
          raise_not_found(kind, d, t)
    \/ respond_not_found

\* the gateway alone: no step of a consumer reads or writes the request
NextDispatch == GatewayDispatch

SpecDispatch == InitTwoDocs /\ [][NextDispatch]_vars

\* ---- indexing one document of any number of chunks ------------------------
\* the document is uploaded and its indexing job published and not yet
\* delivered; its text splits into 0 .. MaxChunks chunks
InitEmbedding ==
    /\ docs = [d \in OneDoc |-> Document("t1", "generic")]
    /\ \E n \in 0 .. MaxChunks : blob = [d \in OneDoc |-> n]
    /\ ocr_results = {}
    /\ invoice_data = {}
    /\ document_summaries = {}
    /\ document_filling_results = {}
    /\ document_chunks = {}
    /\ audit_logs = {}
    /\ queue = SetToBag({Message("rag", "t1", 1)})
    /\ workers = [w \in Workers |-> IdleWorker]
    /\ api = IdleApi
    /\ chat = IdleChat
    /\ ndisp = 1
    /\ nruns = 0
    /\ chunker = IdleChunker
    /\ estimator = IdleEstimator
    /\ limiter = IdleLimiter

RagWorker ==
    \E w \in Workers :
        \/ commit_processing(w)
        \/ ingest_document(w)
        \/ embed_and_store_batch(w)
        \/ \E j \in 1 .. (BatchSize - 1) : embed_and_store_batch_raises(w, j)
        \/ process_rag_ingestion_complete(w)
        \/ process_rag_ingestion_fail(w)

NextEmbedding == TransportTwoDocs \/ RagWorker

SpecEmbedding == InitEmbedding /\ [][NextEmbedding]_vars

\* ---- retrieval: the vector store -----------------------------------------
ThreeDocs == {1, 2, 3}
Owner(d) == IF d = 3 THEN "t2" ELSE "t1"

\* embeddings and query vectors, all of length 5 so that cosines are exact
Vectors == {<<5, 0>>, <<3, 4>>, <<-4, 3>>}
Queries == {<<5, 0>>, <<0, 5>>}
\* the longest document splits into two chunks, the others into one
ChunkCounts(d) == 0 .. (IF d = 1 THEN 2 ELSE 1)

Dot(a, b) == a[1] * b[1] + a[2] * b[2]

Norm(a) == CHOOSE n \in 0 .. 50 : n * n = Dot(a, a)

\* embedding <=> query: cosine distance, in hundredths
CosineDistance(a, b) == 100 - (100 * Dot(a, b)) \div (Norm(a) * Norm(b))

\* 1 - (embedding <=> query), in hundredths
Similarity(a, b) == 100 - CosineDistance(a, b)

\* the chunks an ingestion run of document d leaves, with embeddings es
StoredChunks(d, es) ==
    {[document_id |-> d, tenant_id |-> Owner(d), chunk_index |-> k - 1, run |-> 1,
      embedding |-> es[k]] : k \in 1 .. Len(es)}

Embeddings(d) == UNION {[1 .. n -> Vectors] : n \in ChunkCounts(d)}

InitRetrieval ==
    \E es \in [ThreeDocs -> UNION {Embeddings(d) : d \in ThreeDocs}] :
        /\ \A d \in ThreeDocs : es[d] \in Embeddings(d)
        /\ docs = [d \in ThreeDocs |->
                     IF es[d] = <<>>
                     THEN Document(Owner(d), "generic")
                     ELSE [Document(Owner(d), "generic") EXCEPT
                              !.status = "completed", !.rag_indexed = TRUE,
                              !.processing_started_at = 1,
                              !.processing_completed_at = 1]]
        /\ blob = [d \in ThreeDocs |-> IF es[d] = <<>> THEN 1 ELSE Len(es[d])]
        /\ document_chunks = UNION {StoredChunks(d, es[d]) : d \in ThreeDocs}
        /\ ocr_results = {}
        /\ invoice_data = {}
        /\ document_summaries = {}
        /\ document_filling_results = {}
        /\ audit_logs = {}
        /\ queue = EmptyBag
        /\ workers = [w \in Workers |-> IdleWorker]
        /\ api = IdleApi
        /\ chat = IdleChat
        /\ ndisp = 0
        /\ nruns = 0
        /\ chunker = IdleChunker
        /\ estimator = IdleEstimator
        /\ limiter = IdleLimiter

\* `if document_ids:` is false for None and for an empty list
Truthy(document_ids) == document_ids.given /\ document_ids.ids # {}

\* a document filter takes the place of the tenant condition
Scope_FilterInsteadOfTenant(chunks, t, document_ids) ==
    {c \in chunks :
        IF Truthy(document_ids) THEN c.document_id \in document_ids.ids
        ELSE c.tenant_id = t}

\* WHERE tenant_id = :tenant_id {doc_filter}
Scope(chunks, t, document_ids) ==
    {c \in chunks :
        /\ c.tenant_id = t
        /\ Truthy(document_ids) => c.document_id \in document_ids.ids}

\* ORDER BY embedding <=> :query_vector: the orders in which the rows of S may
\* come, rows at equal distance in any order
RECURSIVE Orderings(_, _)
Orderings(S, q) ==
    IF S = {} THEN {<<>>}
    ELSE LET nearest == {c \in S : \A e \in S :
                            CosineDistance(c.embedding, q) <= CosineDistance(e.embedding, q)}
         IN UNION {{<<c>> \o rest : rest \in Orderings(S \ {c}, q)} : c \in nearest}

Limit(rows, n) == SubSeq(rows, 1, Min(n, Len(rows)))

\* the statement evaluated by scanning the rows in scope and sorting them
SortedScan(chunks, t, document_ids, q, n) ==
    {Limit(o, n) : o \in Orderings(Scope(chunks, t, document_ids), q)}

\* the statement evaluated through the HNSW index on embedding: the index
\* yields the EfSearch nearest rows of the table, the WHERE clause is applied
\* to what the index yields
IndexScan(chunks, t, document_ids, q, n) ==
    {Limit(SelectSeq(Limit(o, EfSearch),
                     LAMBDA c : c \in Scope(chunks, t, document_ids)), n) :
        o \in Orderings(chunks, q)}

\* the query planner picks either evaluation
SimilaritySearch(chunks, t, document_ids, q, n) ==
    SortedScan(chunks, t, document_ids, q, n) \cup IndexScan(chunks, t, document_ids, q, n)

\* a fetched row as the caller sees it
Scored(rows, q) ==
    [i \in 1 .. Len(rows) |->
        [chunk |-> rows[i], similarity |-> Similarity(rows[i].embedding, q)]]

Request(op, q, t, document_ids, n) ==
    [IdleChat EXCEPT !.op = op, !.query = q, !.tenant_id = t,
                     !.document_ids = document_ids, !.max_chunks = n]

\* ChunkRetriever.retrieve_chunks: the formatted rows, whatever their number
retrieve_chunks(q, t, document_ids, n) ==
    /\ chat.pc = "idle"
    /\ \E rows \in SimilaritySearch(document_chunks, t, document_ids, q, n) :
          chat' = [Request("retrieve_chunks", q, t, document_ids, n) EXCEPT
                      !.pc = "answered", !.results = Scored(rows, q),
                      !.status_code = 200]
    /\ UNCHANGED <<limiter, estimator, chunker, document_filling_results, docs, blob, tables, queue, workers, api, ndisp, nruns>>

\* POST /chat/query: no row fetched is answered 404
query_documents(q, t, document_ids, n) ==
    /\ chat.pc = "idle"
    /\ \E rows \in SimilaritySearch(document_chunks, t, document_ids, q, n) :
          chat' = [Request("query_documents", q, t, document_ids, n) EXCEPT
                      !.pc = "answered", !.results = Scored(rows, q),
                      !.status_code = IF rows = <<>> THEN 404 ELSE 200]
    /\ UNCHANGED <<limiter, estimator, chunker, document_filling_results, docs, blob, tables, queue, workers, api, ndisp, nruns>>

\* no list, an empty list, a document of the caller's tenant or of the other
\* tenant, or both
Filters == {NoFilter} \cup {[given |-> TRUE, ids |-> S] : S \in SUBSET {1, 3}}

NextRetrieval ==
    \E q \in Queries, t \in Tenants, document_ids \in Filters, n \in 1 .. MaxLimit :
        \/ retrieve_chunks(q, t, document_ids, n)
        \/ query_documents(q, t, document_ids, n)

SpecRetrieval == InitRetrieval /\ [][NextRetrieval]_vars

\* ---- form filling --------------------------------------------------------
\* uuid4(): an id no document has yet
FreshId(o) == o \in DocIds /\ ~docs[o].exists /\ \A e \in DocIds : e < o => docs[e].exists

\* POST /filling/extract-and-fill: the output document is created in status
\* processing and committed, the job is published afterwards
extract_and_fill(d, t) ==
    /\ api.pc = "idle"
    /\ ndisp < MaxDispatch
    /\ filter_query(d, t)
    /\ \E o \in DocIds :
          /\ FreshId(o)
          /\ docs' = [docs EXCEPT ![o] =
                        [Document(t, "filled_form") EXCEPT
                            !.status = "processing", !.processing_started_at = now]]
    /\ api' = [pc |-> "fill_publish", kind |-> "filling", document_id |-> d,
               tenant_id |-> t, loaded |-> "expired"]
    /\ UNCHANGED <<limiter, estimator, chunker, blob, tables, document_filling_results, queue, workers, chat, ndisp, nruns>>

extract_and_fill_publish ==
    /\ api.pc = "fill_publish"
    /\ Publish("filling", api.tenant_id, api.document_id)
    /\ api' = IdleApi
    /\ UNCHANGED <<limiter, estimator, chunker, docs, blob, tables, document_filling_results, workers, chat, nruns>>

\* publish raises: the exception leaves the endpoint, nothing is written
extract_and_fill_publish_fails ==
    /\ api.pc = "fill_publish"
    /\ api' = IdleApi
    /\ UNCHANGED <<limiter, estimator, chunker, docs, blob, tables, document_filling_results, queue, workers, chat,
                   ndisp, nruns>>

\* a job as extract_and_fill publishes it has no id_document_id key: KeyError,
\* the outer handler answers 500
receive_filling_job(w, m) ==
    /\ Deliver(w)
    /\ BagIn(m, queue) /\ m.stage = "filling"
    /\ ~(ReadKeys(m.stage) \subseteq m.keys)
    /\ workers' = [workers EXCEPT ![w] =
                     [Started(w, m) EXCEPT !.pc = "done", !.raised = TRUE, !.resp = "error"]]
    /\ UNCHANGED <<limiter, estimator, chunker, docs, blob, tables, document_filling_results, queue, api, chat, ndisp>>

\* a message in the format the filling worker expects, naming the ID document
\* and the output document
FillingMessage(idd, out) ==
    [Message("filling", IF Found(idd) THEN docs[idd].tenant_id ELSE "t1", out)
        EXCEPT !.keys = ReadKeys("filling")]

\* the documents a filling message is sent for: an uploaded document and the
\* output document created for it, or an id that has no row
IdDocument(idd) == Found(idd) => docs[idd].document_type # "filled_form"

OutputDocument(out) == Found(out) => docs[out].document_type = "filled_form"

\* the ID document or the output document has no row: ValueError, nothing is
\* written, the handler answers 500
receive_filling_not_found(w, idd, out) ==
    /\ Deliver(w)
    /\ IdDocument(idd) /\ OutputDocument(out)
    /\ ~Found(idd) \/ ~Found(out)
    /\ workers' = [workers EXCEPT ![w] =
                     [Started(w, FillingMessage(idd, out)) EXCEPT
                         !.pc = "done", !.queued = FALSE, !.raised = TRUE, !.resp = "error"]]
    /\ UNCHANGED <<limiter, estimator, chunker, docs, blob, tables, document_filling_results, queue, api, chat, ndisp>>

receive_filling_found(w, idd, out) ==
    /\ Deliver(w)
    /\ IdDocument(idd) /\ OutputDocument(out)
    /\ Found(idd) /\ Found(out)
    /\ workers' = [workers EXCEPT ![w] =
                     [Started(w, FillingMessage(idd, out)) EXCEPT
                         !.pc = "loaded", !.queued = FALSE, !.loaded = docs[out].status]]
    /\ UNCHANGED <<limiter, estimator, chunker, docs, blob, tables, document_filling_results, queue, api, chat, ndisp>>

process_document_filling_fail(w) ==
    workers[w].stage = "filling" /\ StageFail(w, "filling error")

\* the output document is completed, the result and the audit event are
\* added, one commit
process_document_filling_complete(w) ==
    /\ workers[w].pc = "work" /\ workers[w].stage = "filling"
    /\ docs' = [docs EXCEPT ![workers[w].document_id] =
                  [@ EXCEPT !.status = "completed", !.processing_completed_at = now]]
    /\ document_filling_results' = document_filling_results \cup {ResultRow(w)}
    /\ audit_logs' = audit_logs \cup {[AuditRow(w) EXCEPT !.action = "document_filled"]}
    /\ workers' = [workers EXCEPT ![w] = [@ EXCEPT !.pc = "done", !.resp = "success"]]
    /\ UNCHANGED <<limiter, estimator, chunker, blob, ocr_results, invoice_data, document_summaries, document_chunks,
                   queue, api, chat, ndisp, nruns>>

\* one ID document is uploaded, the other id is left for the output document
GatewayFilling ==
    \/ \E t \in Tenants, f \in Files : upload_document(1, t, f)
    \/ \E d \in DocIds, t \in Tenants :
          \/ process_invoice_publish(d, t)
          \/ extract_text_publish(d, t)
          \/ generate_summary_job(d, t)
          \/ extract_and_fill(d, t)
    \/ process_invoice_commit
    \/ extract_and_fill_publish
    \/ extract_and_fill_publish_fails

TransportFilling ==
    \/ \E w \in Workers, m \in BagToSet(queue) : m.stage \in Stages /\ receive_found(w, m)
    \/ \E w \in Workers, m \in BagToSet(queue) : receive_filling_job(w, m)
    \/ \E w \in Workers, idd, out \in DocIds \cup {MissingDoc} :
          receive_filling_not_found(w, idd, out)
    \/ \E w \in Workers, idd, out \in DocIds \cup {MissingDoc} :
          receive_filling_found(w, idd, out)
    \/ \E w \in Workers : acknowledge(w)

WorkersFilling ==
    \E w \in Workers :
        \/ commit_processing(w)
        \/ process_ocr_complete(w)
        \/ process_ocr_fail(w)
        \/ process_invoice_complete(w)
        \/ process_invoice_fail(w)
        \/ process_summarization_complete(w)
        \/ process_summarization_fail(w)
        \/ process_document_filling_complete(w)
        \/ process_document_filling_fail(w)

NextFilling == GatewayFilling \/ TransportFilling \/ WorkersFilling

SpecFilling == InitTwoDocs /\ [][NextFilling]_vars

\* ---- text splitter ------------------------------------------------------
\* The pipeline splits with langchain's RecursiveCharacterTextSplitter, built
\* with chunk_size = 1000, chunk_overlap = 200, length_function = len and the
\* separators below.  A text is a sequence of characters.  The splitter's
\* algorithm is followed with the two sizes as parameters, set small enough
\* that texts of a few characters cross them.

\* the list of separators ends at the word boundary
Separators_NoCharacterLevel == << <<"\n", "\n">>, <<"\n">>, <<".", " ">>, <<" ">> >>

\* separators = ["\n\n", "\n", ". ", " ", ""]
Separators == << <<"\n", "\n">>, <<"\n">>, <<".", " ">>, <<" ">>, <<>> >>

Alphabet == {"a", "b", " ", "\n"}
Whitespace == {" ", "\n"}

\* a text as long as two and a half chunks
ScenarioLen == (5 * chunk_size) \div 2

\* the texts handed to the splitter: every text up to MaxTextLen characters,
\* and every text of ScenarioLen characters made of words
Texts ==
    UNION {[1 .. n -> Alphabet] : n \in 0 .. MaxTextLen}
        \cup [1 .. ScenarioLen -> {"a", " "}]

\* sep occurs in text at position i
MatchAt(text, sep, i) ==
    /\ i + Len(sep) - 1 <= Len(text)
    /\ SubSeq(text, i, i + Len(sep) - 1) = sep

\* re.search(re.escape(sep), text)
search(text, sep) == \E i \in 1 .. Len(text) : MatchAt(text, sep, i)

RECURSIVE re_split(_, _)
\* re.split: the pieces between the leftmost non-overlapping occurrences of sep
re_split(text, sep) ==
    IF ~search(text, sep)
    THEN <<text>>
    ELSE LET i == CHOOSE k \in 1 .. Len(text) :
                      MatchAt(text, sep, k) /\ \A j \in 1 .. (k - 1) : ~MatchAt(text, sep, j)
         IN <<SubSeq(text, 1, i - 1)>> \o re_split(SubSeq(text, i + Len(sep), Len(text)), sep)

NonEmpty(s) == s # <<>>

\* _split_text_with_regex with keep_separator: every piece but the first
\* starts with the separator; the empty separator gives the characters
split_text_with_regex(text, sep) ==
    LET raw == re_split(text, sep)
        pieces == IF sep = <<>>
                  THEN [k \in 1 .. Len(text) |-> <<text[k]>>]
                  ELSE [k \in 1 .. Len(raw) |-> IF k = 1 THEN raw[1] ELSE sep \o raw[k]]
    IN SelectSeq(pieces, NonEmpty)

RECURSIVE lstrip(_)
lstrip(text) ==
    IF text # <<>> /\ Head(text) \in Whitespace THEN lstrip(Tail(text)) ELSE text

RECURSIVE rstrip(_)
rstrip(text) ==
    IF text # <<>> /\ text[Len(text)] \in Whitespace
    THEN rstrip(SubSeq(text, 1, Len(text) - 1))
    ELSE text

strip(text) == rstrip(lstrip(text))

RECURSIVE join(_, _)
\* separator.join(docs)
join(parts, separator) ==
    IF parts = <<>> THEN <<>>
    ELSE IF Len(parts) = 1 THEN parts[1]
    ELSE parts[1] \o separator \o join(Tail(parts), separator)

\* _join_docs: the joined and stripped text; None (here the empty text) when
\* nothing is left
join_docs(parts, separator) == strip(join(parts, separator))

RECURSIVE pop_overlap(_, _, _, _)
\* the while loop of _merge_splits: drop leading pieces of current_doc until
\* what is kept is within the overlap and leaves room for the next piece
pop_overlap(current_doc, total, len, separator_len) ==
    IF \/ total > chunk_overlap
       \/ /\ total + len + (IF Len(current_doc) > 0 THEN separator_len ELSE 0) > chunk_size
          /\ total > 0
    THEN pop_overlap(Tail(current_doc),
                     total - (Len(current_doc[1])
                                 + (IF Len(current_doc) > 1 THEN separator_len ELSE 0)),
                     len, separator_len)
    ELSE <<current_doc, total>>

RECURSIVE merge_from(_, _, _, _, _, _)
\* the for loop of _merge_splits from piece k on
merge_from(splits, k, out, current_doc, total, separator) ==
    IF k > Len(splits)
    THEN IF join_docs(current_doc, separator) # <<>>
         THEN Append(out, join_docs(current_doc, separator))
         ELSE out
    ELSE LET d == splits[k]
             len == Len(d)
             separator_len == Len(separator)
             full == total + len + (IF Len(current_doc) > 0 THEN separator_len ELSE 0)
                         > chunk_size
             flush == full /\ Len(current_doc) > 0
             doc == join_docs(current_doc, separator)
             out1 == IF flush /\ doc # <<>> THEN Append(out, doc) ELSE out
             kept == IF flush
                     THEN pop_overlap(current_doc, total, len, separator_len)
                     ELSE <<current_doc, total>>
             current1 == Append(kept[1], d)
             total1 == kept[2] + len + (IF Len(current1) > 1 THEN separator_len ELSE 0)
         IN merge_from(splits, k + 1, out1, current1, total1, separator)

\* every piece becomes a chunk of its own
merge_splits_NoMerge(splits, separator) ==
    SelectSeq([k \in 1 .. Len(splits) |-> strip(splits[k])], NonEmpty)

\* _merge_splits: pieces are packed into chunks of at most chunk_size
\* characters; a chunk starts with the trailing pieces of its predecessor that
\* fit into chunk_overlap characters
merge_splits(splits, separator) == merge_from(splits, 1, <<>>, <<>>, 0, separator)

RECURSIVE split_recursive(_, _)
RECURSIVE split_pieces(_, _, _, _, _)

\* the for loop of _split_text from piece k on: pieces shorter than
\* chunk_size are collected and merged, a longer piece is split with the
\* remaining separators, or kept as it is when none remains
split_pieces(splits, k, final_chunks, good_splits, new_separators) ==
    IF k > Len(splits)
    THEN IF good_splits # <<>>
         THEN final_chunks \o merge_splits(good_splits, <<>>)
         ELSE final_chunks
    ELSE LET s == splits[k]
         IN IF Len(s) < chunk_size
            THEN split_pieces(splits, k + 1, final_chunks, Append(good_splits, s),
                              new_separators)
            ELSE LET merged == IF good_splits # <<>>
                               THEN final_chunks \o merge_splits(good_splits, <<>>)
                               ELSE final_chunks
                     other_info == IF new_separators = <<>>
                                   THEN <<s>>
                                   ELSE split_recursive(s, new_separators)
                 IN split_pieces(splits, k + 1, merged \o other_info, <<>>, new_separators)

\* RecursiveCharacterTextSplitter._split_text: split on the first separator
\* of the list that occurs in the text (the last one if none does)
split_recursive(text, separators) ==
    LET found == {i \in 1 .. Len(separators) :
                     separators[i] = <<>> \/ search(text, separators[i])}
        first == CHOOSE i \in found : \A j \in found : i <= j
        separator == IF found = {} THEN separators[Len(separators)] ELSE separators[first]
        new_separators == IF found = {} \/ separator = <<>>
                          THEN <<>>
                          ELSE SubSeq(separators, first + 1, Len(separators))
    IN split_pieces(split_text_with_regex(text, separator), 1, <<>>, <<>>, new_separators)

\* self.text_splitter.split_text(text)
RecursiveCharacterTextSplitter(text) == split_recursive(text, Separators)

InitChunker ==
    /\ docs = [d \in OneDoc |-> NoDocument]
    /\ blob = [d \in OneDoc |-> 0]
    /\ ocr_results = {}
    /\ invoice_data = {}
    /\ document_summaries = {}
    /\ document_filling_results = {}
    /\ document_chunks = {}
    /\ audit_logs = {}
    /\ queue = EmptyBag
    /\ workers = [w \in Workers |-> IdleWorker]
    /\ api = IdleApi
    /\ chat = IdleChat
    /\ ndisp = 0
    /\ nruns = 0
    /\ \E text \in Texts : chunker = [IdleChunker EXCEPT !.text = text]
    /\ estimator = IdleEstimator
    /\ limiter = IdleLimiter

\* chunks = self._split_text(text)
split_document_text ==
    /\ chunker.pc = "idle"
    /\ chunker' = [chunker EXCEPT !.pc = "split",
                                  !.chunks = RecursiveCharacterTextSplitter(chunker.text)]
    /\ UNCHANGED <<limiter, estimator, docs, blob, tables, document_filling_results, queue, workers,
                   api, chat, ndisp, nruns>>

NextChunker == split_document_text

SpecChunker == InitChunker /\ [][NextChunker]_vars

\* ---- page estimate of a chunk ---------------------------------------------
\* the values int(chunk_index / chunks_per_page) takes: both quotients are
\* doubles; below 14 pages the result is the exact floor, from 14 pages on a
\* whole exact quotient can come out one less (18 chunks, 14 pages, index 9)
DoubleQuotients(chunk_index, total_chunks, total_pages) ==
    LET chunks_per_page == IF total_pages > 0 THEN <<total_chunks, total_pages>> ELSE <<1, 1>>
        num == chunk_index * chunks_per_page[2]
        den == chunks_per_page[1]
    IN IF total_pages >= 14 /\ num % den = 0 /\ num \div den >= 1
       THEN {num \div den, (num \div den) - 1}
       ELSE {num \div den}

\* _estimate_page_number: min(int(chunk_index / chunks_per_page) + 1, total_pages)
estimate_page_number(chunk_index, total_chunks, total_pages) ==
    {Min(q + 1, total_pages) : q \in DoubleQuotients(chunk_index, total_chunks, total_pages)}

InitEstimator ==
    /\ docs = [d \in OneDoc |-> NoDocument]
    /\ blob = [d \in OneDoc |-> 0]
    /\ ocr_results = {}
    /\ invoice_data = {}
    /\ document_summaries = {}
    /\ document_filling_results = {}
    /\ document_chunks = {}
    /\ audit_logs = {}
    /\ queue = EmptyBag
    /\ workers = [w \in Workers |-> IdleWorker]
    /\ api = IdleApi
    /\ chat = IdleChat
    /\ ndisp = 0
    /\ nruns = 0
    /\ chunker = IdleChunker
    /\ \E total_chunks \in 1 .. MaxChunks, total_pages \in 0 .. MaxPages :
          estimator = [total_chunks |-> total_chunks, total_pages |-> total_pages,
                       pages |-> <<>>]
    /\ limiter = IdleLimiter

\* the loop of _embed_and_store_chunks asks for the page of each chunk in turn
estimate_next_chunk ==
    /\ Len(estimator.pages) < estimator.total_chunks
    /\ \E page_number \in estimate_page_number(Len(estimator.pages),
                                                estimator.total_chunks, estimator.total_pages) :
          estimator' = [estimator EXCEPT !.pages = Append(@, page_number)]
    /\ UNCHANGED <<limiter, chunker, docs, blob, tables, document_filling_results, queue, workers,
                   api, chat, ndisp, nruns>>

NextEstimator == estimate_next_chunk

SpecEstimator == InitEstimator /\ [][NextEstimator]_vars

\* ---- rate limiter ----------------------------------------------------------
WindowKeyOf(c) == <<limiter.callers[c].key, limiter.callers[c].window>>

\* return count <= max_requests: the call is over, its answer is recorded
Returns(c, count) ==
    [limiter EXCEPT !.callers[c] = IdleCaller,
                    !.granted[WindowKeyOf(c)] = IF count <= max_requests THEN @ + 1 ELSE @]

\* current = int(time.time()); the window key is formed from it
check_rate_limit(c, key) ==
    /\ limiter.callers[c].pc = "idle"
    /\ limiter.ncalls < MaxCalls
    /\ limiter' = [limiter EXCEPT !.callers[c] = [pc |-> "incr", key |-> key,
                                                 window |-> limiter.clock \div window_seconds],
                                  !.ncalls = @ + 1]
    /\ UNCHANGED <<estimator, chunker, docs, blob, tables, document_filling_results, queue, workers,
                   api, chat, ndisp, nruns>>

\* count = self.redis.incr(window_key): atomic in Redis, a missing key counts
\* from 0; any count but 1 is answered at once
redis_incr(c) ==
    /\ limiter.callers[c].pc = "incr"
    /\ LET count == limiter.redis[WindowKeyOf(c)].count + 1
           counted == [limiter EXCEPT !.redis[WindowKeyOf(c)].count = count]
       IN limiter' = IF count = 1
                     THEN [counted EXCEPT !.callers[c].pc = "expire"]
                     ELSE [Returns(c, count) EXCEPT !.redis = counted.redis]
    /\ UNCHANGED <<estimator, chunker, docs, blob, tables, document_filling_results, queue, workers,
                   api, chat, ndisp, nruns>>

\* self.redis.expire(window_key, window_seconds) by the caller that counted 1
redis_expire(c) ==
    /\ limiter.callers[c].pc = "expire"
    /\ limiter' = [Returns(c, 1) EXCEPT
                      !.redis[WindowKeyOf(c)].expires_at =
                          IF limiter.redis[WindowKeyOf(c)].count > 0
                          THEN limiter.clock + window_seconds ELSE @]
    /\ UNCHANGED <<estimator, chunker, docs, blob, tables, document_filling_results, queue, workers,
                   api, chat, ndisp, nruns>>

\* a Redis command raises: the except branch answers True
redis_raises(c) ==
    /\ limiter.callers[c].pc \in {"incr", "expire"}
    /\ limiter' = [Returns(c, 0) EXCEPT !.errors = TRUE]
    /\ UNCHANGED <<estimator, chunker, docs, blob, tables, document_filling_results, queue, workers,
                   api, chat, ndisp, nruns>>

\* a second passes; Redis drops the keys whose time to live is over
tick ==
    /\ limiter.clock < MaxClock
    /\ limiter' = [limiter EXCEPT
                      !.clock = @ + 1,
                      !.redis = [k \in WindowKeys |->
                                    IF /\ limiter.redis[k].expires_at # NoExpiry
                                       /\ limiter.redis[k].expires_at <= limiter.clock + 1
                                    THEN NoKey ELSE limiter.redis[k]]]
    /\ UNCHANGED <<estimator, chunker, docs, blob, tables, document_filling_results, queue, workers,
                   api, chat, ndisp, nruns>>

NextLimiter ==
    \/ \E c \in Callers, key \in Keys : check_rate_limit(c, key)
    \/ \E c \in Callers : redis_incr(c) \/ redis_expire(c) \/ redis_raises(c)
    \/ tick

SpecLimiter == Init /\ [][NextLimiter]_vars

\* ---- properties ---------------------------------------------------------
Terminal == {"completed", "failed"}

DocOf(w) == workers[w].document_id

\* the run of w is between its commit of status = processing and its terminal commit
Active(w) == workers[w].pc \in {"work", "embed"}

\* the step in which the run of w ends
Ends(w) == workers[w].pc # "done" /\ workers'[w].pc = "done"

AuditOf(w) == {a \in audit_logs : a.run = workers[w].run}

\* C3: every run that fails mid-processing records exactly one audit event
\* whose action indicates the failure, for the message's document and tenant
C3_OneFailureAudit ==
    \A w \in Workers :
        (workers[w].pc = "done" /\ workers[w].began /\ workers[w].raised) =>
            /\ Cardinality(AuditOf(w)) = 1
            /\ \A a \in AuditOf(w) :
                  /\ a.document_id = DocOf(w)
                  /\ a.tenant_id = workers[w].tenant_id
                  /\ a.action # AuditAction(workers[w].stage)

\* the stage output of the run of w is stored
ResultStored(w, ocr, inv, sums, chunks) ==
    CASE workers[w].stage = "ocr" -> ResultRow(w) \in ocr
      [] workers[w].stage = "invoice" -> ResultRow(w) \in inv
      [] workers[w].stage = "summary" -> ResultRow(w) \in sums
      [] OTHER -> \A k \in 0 .. (workers[w].total - 1) :
                     \E c \in chunks : /\ c.run = workers[w].run
                                       /\ c.document_id = workers[w].document_id
                                       /\ c.chunk_index = k

\* C4: a success answer is given only with the stage result, the stage flag
\* and status = completed committed; a run in which an exception occurred
\* (an unparsable message included) answers non-success
C4_AckOnlyAfterCommit ==
    /\ [][\A w \in Workers :
            (workers[w].resp # "success" /\ workers'[w].resp = "success") =>
                /\ docs'[DocOf(w)].status = "completed"
                /\ docs'[DocOf(w)][FlagOf(workers[w].stage)]
                /\ ResultStored(w, ocr_results', invoice_data', document_summaries',
                                document_chunks')]_vars
    /\ [](\A w \in Workers : workers[w].raised => workers[w].resp = "error")

\* one instance has answered an unparsable envelope with an error while the
\* other has answered success for a run that raised nothing
C4_Witness ==
    \E v, w \in Workers :
        /\ workers[v].pc = "done" /\ workers[v].raised /\ ~workers[v].began
        /\ workers[v].resp = "error"
        /\ workers[w].pc = "done" /\ ~workers[w].raised /\ workers[w].resp = "success"
        /\ docs[DocOf(w)].status = "completed"

RowsOf(table, d, t) == {r \in table : r.document_id = d /\ r.tenant_id = t}

\* C5: at most one OCR result row, one invoice-data row and one summary row
\* exists per (tenant_id, document_id), whatever the deliveries
C5_OneResultRow ==
    \A d \in DocIds, t \in Tenants :
        /\ Cardinality(RowsOf(ocr_results, d, t)) <= 1
        /\ Cardinality(RowsOf(invoice_data, d, t)) <= 1
        /\ Cardinality(RowsOf(document_summaries, d, t)) <= 1

ChunksOf(d) == {c \in document_chunks : c.document_id = d}

\* C6: after a successful ingestion run the chunk_index values stored for
\* the document are exactly 0..N-1, each once
C6_GaplessOnce ==
    \A w \in Workers :
        (workers[w].pc = "done" /\ workers[w].stage = "rag" /\ workers[w].resp = "success") =>
            /\ {c.chunk_index : c \in ChunksOf(DocOf(w))} = 0 .. (workers[w].total - 1)
            /\ Cardinality(ChunksOf(DocOf(w))) = workers[w].total

\* C7: chunks written by two different ingestion runs of one document never coexist
C7_SingleRunChunks ==
    \A c1, c2 \in document_chunks :
        c1.document_id = c2.document_id => c1.run = c2.run

Allowed ==
    {<<"uploaded", "processing">>, <<"processing", "completed">>,
     <<"processing", "failed">>, <<"completed", "processing">>,
     <<"failed", "processing">>}

\* C8: the only status changes are uploaded -> processing, processing ->
\* completed | failed, and completed | failed -> processing
C8_StatusTransitions ==
    [][\A d \in DocIds :
          docs'[d].status # docs[d].status =>
              <<docs[d].status, docs'[d].status>> \in Allowed]_vars

\* C9: when workers of two different stages have begun work on the same
\* document, the document's status is processing for as long as one of them
\* is between its processing commit and its terminal commit
C9_ProcessingWhileActive ==
    \A v, w \in Workers :
        ( /\ workers[v].began /\ workers[w].began
          /\ DocOf(v) = DocOf(w)
          /\ workers[v].stage # workers[w].stage
          /\ Active(w) )
        => docs[DocOf(w)].status = "processing"

\* C10: the status write of a publish-first endpoint never replaces the
\* terminal status of the job it published, once that job is finished and
\* nothing else is pending for the document
C10_EndpointKeepsTerminal ==
    [][(api.pc \in {"inv1_commit", "sum1_commit"} /\ api'.pc = "idle") =>
          ~ /\ docs[api.document_id].status \in Terminal
            /\ docs'[api.document_id].status = "processing"
            /\ queue = EmptyBag
            /\ \A w \in Workers : workers[w].pc = "idle"]_vars

Flags == {FlagOf(st) : st \in Stages}

\* C11: a stage flag only ever changes from false to true; a later run that
\* fails, or a re-dispatch of the same or another stage, never sets it back
C11_FlagsMonotone ==
    [][\A d \in DocIds, f \in Flags : docs[d][f] => docs'[d][f]]_vars

\* a second run of a stage has failed on a document whose flag for that very
\* stage was set by the first run: the flag is still set
C11_Witness ==
    \E w \in Workers :
        /\ workers[w].pc = "done" /\ workers[w].began /\ workers[w].raised
        /\ workers[w].run > 1
        /\ docs[DocOf(w)].status = "failed"
        /\ docs[DocOf(w)][FlagOf(workers[w].stage)]

\* the step in which the run of w commits status = processing
Begins(w) == workers[w].pc = "loaded" /\ workers'[w].pc = "work"

\* C12: a worker that picks up a job for a document whose previous attempt
\* ended in failed or completed sets status = processing and clears
\* error_message before doing the stage work
C12_RedispatchResets ==
    [][\A w \in Workers :
          (Begins(w) /\ workers[w].loaded \in Terminal) =>
              /\ docs'[DocOf(w)].status = "processing"
              /\ docs'[DocOf(w)].error_message = Null]_vars

\* C13: status goes from processing to completed or failed only in the
\* terminal step of a worker run that has itself committed processing for
\* the document; no endpoint of the gateway performs that transition
C13_OnlyWorkerEnds ==
    [][\A d \in DocIds :
          (docs[d].status = "processing" /\ docs'[d].status \in Terminal) =>
              \E w \in Workers : Ends(w) /\ workers[w].began /\ DocOf(w) = d]_vars

\* the run that a step of instance w belongs to
RunOf(w) == IF workers[w].pc = "idle" THEN workers'[w] ELSE workers[w]

StageTable(st, ocr, inv, sums, chunks) ==
    CASE st = "ocr" -> ocr
      [] st = "invoice" -> inv
      [] st = "summary" -> sums
      [] OTHER -> chunks

\* the rows in which two values of a table differ
Delta(old, new) == (old \ new) \cup (new \ old)

\* C14: a step of a run of stage S on document d leaves every other
\* document's row and file, the flags of the other stages on d, d's tenant
\* and type, and the result tables of the other stages unchanged; the rows
\* it changes in S's result table and in the audit table are rows of d
C14_StageFrame ==
    [][\A w \in Workers :
          workers'[w] # workers[w] =>
              LET d == RunOf(w).document_id
                  st == RunOf(w).stage
              IN /\ \A e \in DocIds \ {d} : docs'[e] = docs[e] /\ blob'[e] = blob[e]
                 /\ docs'[d].tenant_id = docs[d].tenant_id
                 /\ docs'[d].document_type = docs[d].document_type
                 /\ docs'[d].exists = docs[d].exists
                 /\ blob'[d] = blob[d]
                 /\ \A s \in Stages \ {st} :
                       /\ docs'[d][FlagOf(s)] = docs[d][FlagOf(s)]
                       /\ StageTable(s, ocr_results', invoice_data',
                                     document_summaries', document_chunks')
                            = StageTable(s, ocr_results, invoice_data,
                                         document_summaries, document_chunks)
                 /\ \A r \in Delta(StageTable(st, ocr_results, invoice_data,
                                              document_summaries, document_chunks),
                                   StageTable(st, ocr_results', invoice_data',
                                              document_summaries', document_chunks')) :
                       r.document_id = d
                 /\ \A a \in Delta(audit_logs, audit_logs') : a.document_id = d]_vars

\* a run on one document has ended, in success or in failure, while the other
\* document carries the completed result of an earlier run of another stage
C14_Witness ==
    \E w \in Workers, e \in DocIds :
        /\ workers[w].pc = "done" /\ workers[w].began /\ workers[w].run > 1
        /\ e # DocOf(w)
        /\ docs[e].status = "completed"
        /\ \E s \in Stages \ {workers[w].stage} :
              /\ docs[e][FlagOf(s)]
              /\ \E r \in StageTable(s, ocr_results, invoice_data,
                                     document_summaries, document_chunks) :
                    r.document_id = e

Answered == chat.pc = "answered"

\* the chunks a request is about: those of its tenant, within its filter when
\* it carries one
Matching ==
    {c \in document_chunks :
        /\ c.tenant_id = chat.tenant_id
        /\ chat.document_ids.given => c.document_id \in chat.document_ids.ids}

\* the request carries no filter, or one that names a document
PlainFilter == ~chat.document_ids.given \/ chat.document_ids.ids # {}

\* C15: every chunk returned to tenant T has tenant_id T, with or without a
\* document filter, also when the filter names a document of another tenant
C15_TenantIsolation ==
    Answered => \A i \in 1 .. Len(chat.results) :
                    chat.results[i].chunk.tenant_id = chat.tenant_id

\* a request whose filter names the caller's document and an indexed document
\* of the other tenant has been answered with chunks
C15_Witness ==
    /\ Answered
    /\ chat.document_ids.given /\ chat.document_ids.ids = {1, 3}
    /\ \E c \in document_chunks : c.document_id = 3 /\ c.tenant_id # chat.tenant_id
    /\ chat.results # <<>>

\* C16: a request with limit n over M matching chunks is answered with
\* exactly min(n, M) chunks, in non-increasing order of similarity, none of
\* them less similar than a matching chunk that was left out
C16_TopK ==
    (Answered /\ PlainFilter) =>
        LET r == chat.results
            returned == {r[i].chunk : i \in 1 .. Len(r)}
        IN /\ Len(r) = Min(chat.max_chunks, Cardinality(Matching))
           /\ \A i, j \in 1 .. Len(r) : i < j => r[i].similarity >= r[j].similarity
           /\ \A i \in 1 .. Len(r) :
                 r[i].similarity = 100 - CosineDistance(r[i].chunk.embedding, chat.query)
           /\ \A c \in Matching \ returned : \A i \in 1 .. Len(r) :
                 Similarity(c.embedding, chat.query) <= r[i].similarity

\* C17: when a request carries a document filter, of any size, every chunk
\* returned belongs to a document of the filter
C17_FilterRespected ==
    (Answered /\ chat.document_ids.given) =>
        \A i \in 1 .. Len(chat.results) :
            chat.results[i].chunk.document_id \in chat.document_ids.ids

\* C18: a request that matches no chunk is answered with an empty result and
\* not with an error
C18_EmptyIsNotError ==
    (Answered /\ PlainFilter /\ Matching = {}) =>
        /\ chat.results = <<>>
        /\ chat.status_code = 200

\* the result records and the audit events of run n
RunResults(n, ocr, inv, sums, fills) == {r \in ocr \cup inv \cup sums \cup fills : r.run = n}

RunAudits(n, audits) == {a \in audits : a.run = n}

\* C19: a successful run of the OCR, invoice, summarizer or filling worker
\* adds exactly one result record and exactly one audit event and sets status
\* = completed in one step; no state holds the result record or the audit
\* event of a run without the other, and they appear with status = completed
C19_AtomicSuccess ==
    [][\A n \in 1 .. nruns' :
          LET R == RunResults(n, ocr_results, invoice_data, document_summaries,
                              document_filling_results)
              Rn == RunResults(n, ocr_results', invoice_data', document_summaries',
                               document_filling_results')
              A == RunAudits(n, audit_logs)
              An == RunAudits(n, audit_logs')
          IN /\ Cardinality(Rn) = Cardinality(An) /\ Cardinality(Rn) <= 1
             /\ R \subseteq Rn /\ A \subseteq An
             /\ (R # Rn \/ A # An) =>
                   \E w \in Workers :
                      /\ workers[w].run = n /\ Ends(w) /\ workers'[w].resp = "success"
                      /\ \A r \in Rn : r.document_id = DocOf(w)
                      /\ \A a \in An : a.document_id = DocOf(w)
                      /\ docs'[DocOf(w)].status = "completed"
             /\ \A w \in Workers :
                   (workers[w].run = n /\ Ends(w) /\ workers'[w].resp = "success") =>
                       Cardinality(Rn) = 1 /\ Cardinality(An) = 1]_vars

\* a filling run has answered success: its result record and its
\* document_filled audit event are stored and the output document is completed
C19_Witness ==
    \E w \in Workers :
        /\ workers[w].pc = "done" /\ workers[w].stage = "filling"
        /\ workers[w].resp = "success"
        /\ ResultRow(w) \in document_filling_results
        /\ \E a \in audit_logs : a.run = workers[w].run /\ a.action = "document_filled"
        /\ docs[DocOf(w)].status = "completed"
        /\ \E r \in ocr_results \cup invoice_data \cup document_summaries :
              r.run # workers[w].run

\* C20: a document is created with status = uploaded and all stage flags
\* false, and its status becomes processing for the first time only in the
\* step in which a stage worker picks up a job for it
C20_CreatedUploaded ==
    [][\A d \in DocIds :
          /\ (~docs[d].exists /\ docs'[d].exists) =>
                /\ docs'[d].status = "uploaded"
                /\ \A f \in Flags : ~docs'[d][f]
          /\ (docs[d].status = "uploaded" /\ docs'[d].status = "processing") =>
                \E w \in Workers : Begins(w) /\ DocOf(w) = d]_vars

\* C21: every published job message carries every field the worker of its
\* stage reads, so it can be consumed from the message and the Document
\* record alone; a dispatch publishes exactly one message, on the topic of
\* its stage
C21_MessageComplete ==
    [][ndisp' # ndisp =>
          \E m \in BagToSet(queue') :
              /\ queue' = queue (+) SetToBag({m})
              /\ api.pc # "idle" => m.stage = api.kind
              /\ ReadKeys(m.stage) \subseteq m.keys]_vars

\* C22: a run that ends in an error on a message naming an existing document
\* (a message lacking a field the worker reads, or a data error during the
\* run) leaves that document failed with a non-null error_message
C22_DataErrorMarksFailed ==
    [][\A w \in Workers :
          (Ends(w) /\ workers'[w].raised /\ Found(workers'[w].document_id)) =>
              /\ docs'[workers'[w].document_id].status = "failed"
              /\ docs'[workers'[w].document_id].error_message # Null]_vars

RunChunks(chunks, n) == {c \in chunks : c.run = n}

\* C23: when an ingestion run fails while embedding batch k, the chunks of
\* the earlier batches (indices 0..5k-1) are committed; the chunks the failed
\* run has persisted are a prefix 0..m-1, each index once; no later step
\* removes a stored chunk
C23_FailedRunPrefix ==
    [][/\ document_chunks \subseteq document_chunks'
       /\ \A w \in Workers :
             (Ends(w) /\ workers[w].stage = "rag" /\ workers'[w].raised) =>
                 LET rows == RunChunks(document_chunks', workers[w].run)
                     k == workers[w].i \div BatchSize
                     m == workers'[w].stored
                 IN /\ {c.chunk_index : c \in rows} = 0 .. (m - 1)
                    /\ Cardinality(rows) = m
                    /\ (workers[w].pc = "embed" /\ workers[w].i < workers[w].total) =>
                          /\ workers[w].i = BatchSize * k
                          /\ 0 .. (BatchSize * k - 1) \subseteq {c.chunk_index : c \in rows}
                          /\ docs'[DocOf(w)].status = "failed"]_vars

\* an ingestion run has failed in its second batch: the document is failed and
\* the five chunks of the first batch are stored
C23_Witness ==
    \E w \in Workers :
        /\ workers[w].pc = "done" /\ workers[w].stage = "rag" /\ workers[w].raised
        /\ workers[w].i >= BatchSize /\ workers[w].i < workers[w].total
        /\ docs[DocOf(w)].status = "failed"
        /\ {c.chunk_index : c \in RunChunks(document_chunks, workers[w].run)}
               = 0 .. (workers[w].stored - 1)
        /\ workers[w].stored >= BatchSize

\* C24: every stored chunk with chunk_index k has as content the k-th segment
\* of the chunker's output for its document and carries the embedding
\* returned for that segment, across batch boundaries
C24_ChunkMatchesSegment ==
    \A c \in document_chunks :
        /\ c.chunk_index + 1 \in DOMAIN split_text(c.document_id)
        /\ c.content = split_text(c.document_id)[c.chunk_index + 1]
        /\ c.embedding = get_embeddings_batch(<<c.content>>)[1]

\* a chunk of the second batch is stored
C24_Witness ==
    \E c \in document_chunks :
        /\ c.chunk_index >= BatchSize
        /\ c.content = split_text(c.document_id)[c.chunk_index + 1]

\* C29: audit events are append-only: no step of a worker or of a dispatch
\* endpoint changes or removes an audit event that is stored
C29_AuditAppendOnly ==
    [][audit_logs \subseteq audit_logs']_vars

\* a second audit event has been added next to an earlier one of the same document
C29_Witness ==
    \E a, b \in audit_logs : a.document_id = b.document_id /\ a.run < b.run

\* C30: an ingestion run marks the document completed with rag_indexed only
\* if stored_chunks equals total_chunks: every segment of the chunker's
\* output was persisted with an embedding by this run
C30_CompleteOnlyIfAllStored ==
    [][\A w \in Workers :
          (Ends(w) /\ workers[w].stage = "rag" /\ workers'[w].resp = "success") =>
              LET rows == RunChunks(document_chunks', workers[w].run)
              IN /\ docs'[DocOf(w)].status = "completed" /\ docs'[DocOf(w)].rag_indexed
                 /\ workers[w].stored = workers[w].total
                 /\ workers[w].total = Len(split_text(DocOf(w)))
                 /\ \A k \in 1 .. workers[w].total :
                       \E c \in rows :
                           /\ c.chunk_index = k - 1
                           /\ c.content = split_text(DocOf(w))[k]
                           /\ c.embedding = get_embeddings_batch(<<c.content>>)[1]]_vars

\* an ingestion run over two batches has ended in success with every chunk stored
C30_Witness ==
    \E w \in Workers :
        /\ workers[w].pc = "done" /\ workers[w].stage = "rag" /\ workers[w].resp = "success"
        /\ workers[w].total > BatchSize
        /\ workers[w].stored = workers[w].total
        /\ docs[DocOf(w)].rag_indexed

Split == chunker.pc = "split"

Blank(text) == \A k \in 1 .. Len(text) : text[k] \in Whitespace

SeparatorFree(text) == \A k \in 1 .. Len(text) : text[k] \notin Whitespace

\* C26: every segment the splitter returns has at most chunk_size characters;
\* a run of text longer than chunk_size without a separator is cut at the
\* limit: its first segment is its first chunk_size characters
C26_SegmentsBounded ==
    Split =>
        /\ \A k \in 1 .. Len(chunker.chunks) : Len(chunker.chunks[k]) <= chunk_size
        /\ (SeparatorFree(chunker.text) /\ Len(chunker.text) > chunk_size) =>
              chunker.chunks[1] = SubSeq(chunker.text, 1, chunk_size)

\* a run without separators longer than chunk_size has been split
C26_Witness ==
    /\ Split
    /\ SeparatorFree(chunker.text) /\ Len(chunker.text) > chunk_size
    /\ Len(chunker.chunks) > 1
    /\ Len(chunker.chunks[1]) = chunk_size

\* C27 as stated: every text shorter than chunk_size gives exactly one chunk
C27_ShortTextOneChunk ==
    (Split /\ Len(chunker.text) < chunk_size) => Len(chunker.chunks) = 1

\* C27: every text shorter than chunk_size that has a character other than
\* whitespace gives exactly one chunk, the text without its leading and
\* trailing whitespace; an empty or all-whitespace text gives no chunk
C27_ShortTextOneChunk_Amended ==
    (Split /\ Len(chunker.text) < chunk_size) =>
        IF Blank(chunker.text)
        THEN chunker.chunks = <<>>
        ELSE chunker.chunks = <<strip(chunker.text)>>

\* a short text of two words around a separator has been returned as one chunk
C27_Witness ==
    /\ Split
    /\ Len(chunker.text) < chunk_size /\ ~Blank(chunker.text)
    /\ \E k \in 1 .. Len(chunker.text) : chunker.text[k] \in Whitespace
    /\ Len(chunker.chunks) = 1

\* C28: when a text needs more than one chunk, the first chunk_overlap
\* characters of chunk i+1 are the last chunk_overlap characters of chunk i;
\* a text of two and a half chunk sizes is split into exactly 3 chunks
C28_ExactOverlap ==
    Split =>
        /\ \A i \in 1 .. (Len(chunker.chunks) - 1) :
              LET a == chunker.chunks[i]
                  b == chunker.chunks[i + 1]
              IN /\ Len(a) >= chunk_overlap /\ Len(b) >= chunk_overlap
                 /\ SubSeq(b, 1, chunk_overlap)
                       = SubSeq(a, Len(a) - chunk_overlap + 1, Len(a))
        /\ Len(chunker.text) = ScenarioLen => Len(chunker.chunks) = 3

\* C31: a filling run that ends in an error (the ID document or the output
\* document is not found, or extraction or filling raises) leaves the output
\* document it names, if there is one, failed with a non-null error_message,
\* never in processing
C31_FillingFailureRecorded ==
    [][\A w \in Workers :
          LET out == workers'[w].document_id
          IN (/\ workers[w].pc # "done" /\ workers'[w].pc = "done"
              /\ workers'[w].stage = "filling" /\ workers'[w].raised
              /\ Found(out) /\ docs[out].document_type = "filled_form") =>
                 /\ docs'[out].status = "failed"
                 /\ docs'[out].error_message # Null]_vars

ResultStages == {"ocr", "invoice", "summary"}

\* C32: a run of the OCR, invoice or summarizer worker that ends in failed
\* has added no result row and leaves the stage flags as they were; a result
\* table or a flag changes only in the step in which a run commits
\* status = completed
C32_FailedRunAddsNothing ==
    [][/\ \A w \in Workers :
             (Ends(w) /\ workers[w].stage \in ResultStages /\ workers'[w].raised
                      /\ Found(DocOf(w))) =>
                 /\ RunResults(workers[w].run, ocr_results', invoice_data',
                               document_summaries', {}) = {}
                 /\ \A f \in Flags : docs'[DocOf(w)][f] = docs[DocOf(w)][f]
       /\ (\/ <<ocr_results, invoice_data, document_summaries>>'
                 # <<ocr_results, invoice_data, document_summaries>>
           \/ \E d \in DocIds : \E f \in Flags : docs'[d][f] # docs[d][f]) =>
              \E w \in Workers :
                  /\ Ends(w) /\ workers'[w].resp = "success"
                  /\ docs'[DocOf(w)].status = "completed"
                  /\ docs'[DocOf(w)][FlagOf(workers[w].stage)]]_vars

\* a second run of a stage has failed after the first one succeeded: the flag
\* is as the first run left it and the only result row is the first run's
C32_Witness ==
    \E w \in Workers :
        /\ workers[w].pc = "done" /\ workers[w].stage \in ResultStages
        /\ workers[w].began /\ workers[w].raised /\ workers[w].run > 1
        /\ docs[DocOf(w)].status = "failed"
        /\ docs[DocOf(w)][FlagOf(workers[w].stage)]
        /\ RunResults(workers[w].run, ocr_results, invoice_data, document_summaries, {}) = {}
        /\ \E n \in 1 .. (workers[w].run - 1) :
              RunResults(n, ocr_results, invoice_data, document_summaries, {}) # {}

\* C33: a message naming a document that does not exist is answered with a
\* non-success response and leaves the stored state as it is: no document is
\* changed and no result row, chunk or audit event is created
C33_MissingDocumentNoChange ==
    [][\A w \in Workers :
          (/\ workers[w].pc = "idle" /\ workers'[w].pc # "idle"
           /\ ~Found(workers'[w].document_id)) =>
              /\ workers'[w].pc = "done" /\ workers'[w].resp = "error"
              /\ UNCHANGED <<docs, tables, document_filling_results, queue>>]_vars

\* an ingestion message for a missing document has been answered with an
\* error while the stored document is completed
C33_Witness ==
    \E w \in Workers :
        /\ workers[w].pc = "done" /\ workers[w].stage = "rag"
        /\ workers[w].document_id = MissingDoc /\ workers[w].resp = "error"
        /\ \E d \in DocIds : Found(d) /\ docs[d].status = "completed"

\* C34: when an endpoint that has committed status = processing fails to
\* publish the job, the document does not stay in processing: the request
\* ends with the document failed and an error_message naming the publish
\* failure
C34_PublishFailureRecorded ==
    [][(api.pc = "publish" /\ api'.pc = "idle" /\ queue' = queue) =>
          /\ docs'[api.document_id].status = "failed"
          /\ docs'[api.document_id].error_message = "Failed to publish job"]_vars

Owned(d, t) == d \in DocIds /\ docs[d].exists /\ docs[d].tenant_id = t

\* C35: a dispatch request for a document that does not exist or belongs to
\* another tenant is answered not found, publishes no message and changes no
\* document: every message published names a document of the tenant it
\* carries, every request the gateway takes up for a document that is not the
\* caller's ends in not_found with documents, tables and queue untouched, and
\* a gateway step writes only the caller's own document
C35_ForeignDispatchRejected ==
    [][/\ \A m \in BagToSet(queue') :
             CopiesIn(m, queue') > CopiesIn(m, queue) => Owned(m.document_id, m.tenant_id)
       /\ (api.pc = "idle" /\ api'.pc # "idle") =>
             IF Owned(api'.document_id, api'.tenant_id)
             THEN api'.pc # "not_found"
             ELSE /\ api'.pc = "not_found"
                  /\ UNCHANGED <<docs, tables, queue, ndisp>>
       /\ (api' # api /\ docs' # docs) =>
             \A e \in DocIds : docs'[e] # docs[e] =>
                 \/ Owned(e, api.tenant_id) /\ e = api.document_id
                 \/ Owned(e, api'.tenant_id) /\ e = api'.document_id]_vars

\* a request of one tenant for the document of the other, which is being
\* processed, has been turned away
C35_Witness ==
    /\ api.pc = "not_found"
    /\ Found(api.document_id)
    /\ docs[api.document_id].tenant_id # api.tenant_id
    /\ docs[api.document_id].status = "processing"
    /\ queue # EmptyBag

StageRows == ocr_results \cup invoice_data \cup document_summaries \cup document_chunks

\* C36: with jobs published by the dispatch endpoints only, every stored chunk
\* and every stage result row carries the tenant_id of the document it
\* references
C36_RowsCarryDocumentTenant ==
    \A r \in StageRows :
        /\ r.document_id \in DocIds /\ docs[r.document_id].exists
        /\ r.tenant_id = docs[r.document_id].tenant_id

\* chunks of the second tenant's document and a result row of the first
\* tenant's document are stored
C36_Witness ==
    /\ \E c \in document_chunks : docs[c.document_id].tenant_id = "t2"
    /\ \E r \in ocr_results \cup invoice_data \cup document_summaries :
          docs[r.document_id].tenant_id = "t1"

LoopDone(w) ==
    \/ workers[w].pc = "embed" /\ workers[w].i >= workers[w].total
    \/ workers[w].pc = "done" /\ ~workers[w].raised

\* C37: the embedding client is called once per batch of consecutive chunks,
\* in chunk order: the calls made so far, put end to end, are the chunks from
\* the first on; a call carries at most 5 texts and every call but the last
\* exactly 5; once the loop is through, N chunks have caused ceil(N / 5) calls
C37_OneCallPerBatch ==
    \A w \in Workers :
        (workers[w].stage = "rag" /\ workers[w].pc \in {"embed", "done"}) =>
            LET chunks == split_text(workers[w].document_id)
                N == Len(chunks)
                calls == workers[w].calls
            IN /\ \A k \in 1 .. Len(calls) :
                     /\ Len(calls[k]) >= 1 /\ Len(calls[k]) <= BatchSize
                     /\ k < Len(calls) => Len(calls[k]) = BatchSize
                     /\ BatchSize * (k - 1) + Len(calls[k]) <= N
                     /\ \A j \in 1 .. Len(calls[k]) : calls[k][j] = chunks[BatchSize * (k - 1) + j]
               /\ LoopDone(w) => Len(calls) = (N + BatchSize - 1) \div BatchSize

\* a run over more than two full batches and a partial one is through
C37_Witness ==
    \E w \in Workers :
        /\ workers[w].stage = "rag" /\ workers[w].pc = "done" /\ ~workers[w].raised
        /\ workers[w].total > 2 * BatchSize
        /\ workers[w].total % BatchSize # 0
        /\ Len(workers[w].calls) = 3

\* C38: for total_chunks >= 1, chunk_index in 0 .. total_chunks - 1 and
\* total_pages >= 0 the estimated page is at least 1, at most total_pages when
\* total_pages >= 1, and does not decrease as chunk_index increases
C38_PageEstimateInRange ==
    \A k \in 1 .. Len(estimator.pages) :
        /\ estimator.pages[k] >= 1
        /\ estimator.total_pages >= 1 => estimator.pages[k] <= estimator.total_pages
        /\ k > 1 => estimator.pages[k - 1] <= estimator.pages[k]

\* C39: with Redis answering, check_rate_limit returns True for at most
\* max_requests calls of one key and window, however the callers interleave,
\* and a caller of one window touches the counter of no other window
C39_WindowAllowance ==
    [][/\ ~limiter'.errors =>
             \A k \in WindowKeys : limiter'.granted[k] <= max_requests
       /\ \A c \in Callers :
             (limiter.callers[c].pc # "idle" /\ limiter'.callers[c] # limiter.callers[c]) =>
                 \A k \in WindowKeys \ {WindowKeyOf(c)} : limiter'.redis[k] = limiter.redis[k]]_vars
====
